---- MODULE Spec2Model ----
(***************************************************************************)
(* Model of src/src/gpuarray_array_blas.c: the validation-and-dispatch     *)
(* layer between strided device arrays and the backend BLAS kernels.       *)
(*                                                                         *)
(* One action per entry point (GpuArray_rdot, GpuArray_rgemv,              *)
(* GpuArray_rgemm, GpuArray_rger, GpuArray_rgemmBatch_3d).  An entry point *)
(* is the composition of its source blocks; a block is an operator from a  *)
(* frame (arguments, locals, log of the calls made to the collaborators)   *)
(* to the set of frames it can leave behind.  The arguments are read in    *)
(* three stages, each entire before the checks that use it: types, ranks   *)
(* and alignment on entry; extents once those checks pass; layouts once    *)
(* the shapes are accepted.  A field holds the value of the plain call     *)
(* (same supported type, right rank, aligned, packed row-major, every      *)
(* collaborator succeeding) unless a departure is drawn for it; every      *)
(* departure from the plain call spends one unit of MaxDev.                *)
(***************************************************************************)
EXTENDS Integers, Sequences, FiniteSets, TLC

VARIABLES
  pc,      \* "idle" before the call, "returned" after it, "crashed" if it never returns
  args,    \* the arguments of the call: entry point, nocopy, transA, transB, operand views
  loc,     \* the locals of the entry point when it stopped
  calls    \* the calls made to the collaborators, in order, with what they returned

vars == <<pc, args, loc, calls>>

(* ------------------------------ bounds -------------------------------- *)

\* Largest extent of a dimension.
MaxDim == 2
\* Number of departures from the plain call explored together.
MaxDev == 3

\* size_t is modelled SizeBits wide (the arithmetic is modulo 2^SizeBits).
SizeBits == 16
SizeModulus == 2 ^ SizeBits

\* Largest base offset of an operand, in elements, in the slice-offset specification.
MaxOffset == 2
\* Largest batch-axis stride, in elements and either sign, in the slice-offset specification.
MaxStep == 4
\* Largest batch count in the slice-offset specification.
MaxBatch == 3

DimValues == 1..MaxDim
\* Vector strides and trailing matrix strides, in elements.
StrideUnits == {0 - 1, 1, 2}

(* ------------------------- types and constants ------------------------ *)

TypeCodes == {"GA_HALF", "GA_FLOAT", "GA_DOUBLE", "GA_INT"}

gpuarray_get_elsize(typecode) ==
  CASE typecode = "GA_HALF" -> 2
    [] typecode = "GA_FLOAT" -> 4
    [] typecode = "GA_DOUBLE" -> 8
    [] OTHER -> 4

\* ssize_t or size_t value converted to size_t.
SizeT(x) == x % SizeModulus

\* The status a failing collaborator returns, one per collaborator.
CopyErrs == {"GA_NO_ERROR", "GA_MEMORY_ERROR"}
SetupErrs == {"GA_NO_ERROR", "GA_BLAS_ERROR", "GA_DEVSUP_ERROR"}
KernelErrs == {"GA_NO_ERROR", "GA_BLAS_ERROR", "GA_DEVSUP_ERROR"}

Bind(S, F(_)) == UNION {F(g) : g \in S}

RECURSIVE Product(_, _, _)
Product(s, lo, hi) == IF lo > hi THEN 1 ELSE s[lo] * Product(s, lo + 1, hi)

\* Byte strides of a packed array of the given dimensions.
PackedStrides(dimensions, elsize, order) ==
  [i \in 1..Len(dimensions) |->
     IF order = "GA_F_ORDER"
       THEN elsize * Product(dimensions, 1, i - 1)
       ELSE elsize * Product(dimensions, i + 1, Len(dimensions))]

\* The view of the plain call: packed row-major, aligned, offset 0.
PlainView(typecode, dimensions) ==
  [typecode |-> typecode,
   nd |-> Len(dimensions),
   dimensions |-> dimensions,
   strides |-> PackedStrides(dimensions, gpuarray_get_elsize(typecode), "GA_C_ORDER"),
   offset |-> 0,
   flags |-> {"GA_C_CONTIGUOUS", "GA_ALIGNED"},
   onesegment |-> TRUE]

RequiredRank(op) ==
  CASE op = "rdot" -> [X |-> 1, Y |-> 1, Z |-> 0]
    [] op = "rgemv" -> [A |-> 2, X |-> 1, Y |-> 1]
    [] op = "rgemm" -> [A |-> 2, B |-> 2, C |-> 2]
    [] op = "rger" -> [X |-> 1, Y |-> 1, A |-> 2]
    [] op = "rgemmBatch_3d" -> [A |-> 3, B |-> 3, C |-> 3]

\* The operands of an entry point, in the order its checks name them.
Operands(op) ==
  CASE op = "rdot" -> <<"X", "Y", "Z">>
    [] op = "rgemv" -> <<"A", "X", "Y">>
    [] op = "rgemm" -> <<"A", "B", "C">>
    [] op = "rger" -> <<"X", "Y", "A">>
    [] op = "rgemmBatch_3d" -> <<"A", "B", "C">>

PlainDims(nd) == [i \in 1..nd |-> MaxDim]

(* ------------------------------ frames -------------------------------- *)

\* The frame of a call that has just been entered.  The locals are
\* indeterminate in C until assigned; no block reads one before it is assigned.
NewFrame(op, nocopy, transA, transB) ==
  [st |-> "run", budget |-> MaxDev, op |-> op,
   nocopy |-> nocopy, transA0 |-> transA, transB0 |-> transB,
   v |-> [a \in DOMAIN RequiredRank(op) |->
            PlainView("GA_FLOAT", PlainDims(RequiredRank(op)[a]))],
   tmp |-> {}, copyv |-> [a \in {} |-> 0],
   err |-> "unset", ctx_err |-> "unset",
   transA |-> transA, transB |-> transB,
   elsize |-> 0, m |-> 0, n |-> 0, k |-> 0, batchCount |-> 0,
   o |-> "unset", lda |-> 0, ldb |-> 0, ldc |-> 0,
   cA |-> 0, cB |-> 0, cC |-> 0,
   alloc |-> {}, written |-> {},
   calls |-> <<>>]

\* The frames a block leaves: nothing runs once the call left the straight path.
Run(f, S) == IF f.st = "run" THEN S ELSE {f}

\* return error_set(ctx->err, code, ...): sets the context's error and returns it.
error_set(f, code) == [f EXCEPT !.st = "return", !.err = code, !.ctx_err = code]

\* err = error_set(...); goto cleanup;
error_goto(f, code) == [f EXCEPT !.st = "cleanup", !.err = code, !.ctx_err = code]

\* An input read for the first time: the plain value, or another one for one departure.
Draw(f, plain, S) ==
  {<<plain, f.budget>>} \cup
  (IF f.budget > 0 THEN {<<x, f.budget - 1>> : x \in S \ {plain}} ELSE {})

\* The view an operand pointer (Xp, Ap, ...) designates: the temporary or the argument.
Ptr(f, a) == IF a \in f.tmp THEN f.copyv[a] ELSE f.v[a]

Each3(f, names, D(_, _)) ==
  Bind(Bind(D(f, names[1]), LAMBDA g : D(g, names[2])), LAMBDA g : D(g, names[3]))

Log(f, call) == [f EXCEPT !.calls = Append(@, call)]

(* --------------------- collaborators (outside src/) ------------------- *)

\* GpuArray_ISONESEGMENT(a): the array's elements form one segment of memory.
GpuArray_ISONESEGMENT(a) == a.onesegment

\* GpuArray_IS_C_CONTIGUOUS(a): the precomputed row-major flag.
GpuArray_IS_C_CONTIGUOUS(a) == "GA_C_CONTIGUOUS" \in a.flags

\* The view GpuArray_copy materializes: same type and shape, packed in the
\* order asked for (row-major for GA_ANY_ORDER), owned by the caller.
CopiedView(src, order) ==
  [src EXCEPT
     !.strides = PackedStrides(src.dimensions, gpuarray_get_elsize(src.typecode), order),
     !.offset = 0,
     !.flags = {IF order = "GA_F_ORDER" THEN "GA_F_CONTIGUOUS" ELSE "GA_C_CONTIGUOUS",
                "GA_ALIGNED"},
     !.onesegment = TRUE]

\* err = GpuArray_copy(&copyA, A, order); if (err != GA_NO_ERROR) goto cleanup; Ap = &copyA;
GpuArray_copy(f, a, order) ==
  {LET g == Log([f EXCEPT !.err = d[1], !.budget = d[2]],
                [fn |-> "GpuArray_copy", src |-> a, order |-> order, err |-> d[1]])
   IN IF d[1] # "GA_NO_ERROR"
        THEN [g EXCEPT !.st = "cleanup"]
        ELSE [g EXCEPT !.tmp = @ \cup {a},
                       !.copyv = (a :> CopiedView(f.v[a], order)) @@ @]
   : d \in Draw(f, "GA_NO_ERROR", CopyErrs)}

\* err = gpublas_setup(ctx); if (err != GA_NO_ERROR) goto cleanup;
gpublas_setup(f) ==
  Run(f, {LET g == Log([f EXCEPT !.err = d[1], !.budget = d[2]],
                       [fn |-> "gpublas_setup", err |-> d[1]])
          IN IF d[1] # "GA_NO_ERROR" THEN [g EXCEPT !.st = "cleanup"] ELSE g
          : d \in Draw(f, "GA_NO_ERROR", SetupErrs)})

\* A backend kernel is called with the arguments in `call` and returns a status.
Kernel(f, call) ==
  {Log([f EXCEPT !.err = d[1], !.budget = d[2]], call @@ [err |-> d[1]])
   : d \in Draw(f, "GA_NO_ERROR", KernelErrs)}

(* ------------------------- reading the arguments ---------------------- *)

Supported(typecode) == typecode \in {"GA_HALF", "GA_FLOAT", "GA_DOUBLE"}

SetDims(view, dimensions) ==
  [view EXCEPT !.nd = Len(dimensions), !.dimensions = dimensions,
               !.strides = PackedStrides(dimensions, gpuarray_get_elsize(view.typecode),
                                         "GA_C_ORDER")]

SetTypecode(view, typecode) ==
  [view EXCEPT !.typecode = typecode,
               !.strides = PackedStrides(view.dimensions, gpuarray_get_elsize(typecode),
                                         "GA_C_ORDER")]

\* The first operand's element type.
DrawFirstTypecode(f, a) ==
  {[f EXCEPT !.v[a] = SetTypecode(@, d[1]), !.budget = d[2]]
   : d \in Draw(f, "GA_FLOAT", TypeCodes)}

\* Another operand's element type: plainly that of the first operand.
DrawTypecode(f, a) ==
  {[f EXCEPT !.v[a] = SetTypecode(@, d[1]), !.budget = d[2]]
   : d \in Draw(f, f.v[(Operands(f.op))[1]].typecode, TypeCodes)}

\* An operand's rank: plainly the required one, else one more or one less.
DrawRank(f, a) ==
  LET req == RequiredRank(f.op)[a]
  IN {[f EXCEPT !.v[a] = SetDims(@, PlainDims(d[1])), !.budget = d[2]]
      : d \in Draw(f, req, {req + 1} \cup (IF req > 0 THEN {req - 1} ELSE {}))}

\* An operand's alignment flag.
DrawAligned(f, a) ==
  {[f EXCEPT !.v[a].flags = IF d[1] THEN @ ELSE @ \ {"GA_ALIGNED"}, !.budget = d[2]]
   : d \in Draw(f, TRUE, BOOLEAN)}

\* The element types, ranks and alignment flags of the three operands.
ReadTypes(f) ==
  LET t1 == DrawFirstTypecode(f, (Operands(f.op))[1])
      r == Bind(t1, LAMBDA g : Each3(g, Operands(g.op), DrawRank))
      t2 == Bind(r, LAMBDA g : DrawTypecode(g, (Operands(g.op))[2]))
      t3 == Bind(t2, LAMBDA g : DrawTypecode(g, (Operands(g.op))[3]))
  IN Bind(t3, LAMBDA g : Each3(g, Operands(g.op), DrawAligned))

\* One extent of an operand (index from 1).
DrawDim(f, a, i, plain) ==
  {[f EXCEPT !.v[a] = SetDims(@, [@.dimensions EXCEPT ![i] = d[1]]), !.budget = d[2]]
   : d \in Draw(f, plain, DimValues)}

\* A vector's stride: a multiple of its element size.
DrawVectorStride(f, a) ==
  LET e == gpuarray_get_elsize(f.v[a].typecode)
  IN {[f EXCEPT !.v[a].strides = <<d[1]>>, !.budget = d[2]]
      : d \in Draw(f, e, {e * u : u \in StrideUnits})}

\* The layouts of a 2-d operand as gemv, gemm and ger read it: the contiguity
\* flags and whether it is one segment.  Either flag implies one segment.
MatrixLayouts ==
  {[cf |-> cf, onesegment |-> s] :
     cf \in SUBSET {"GA_C_CONTIGUOUS", "GA_F_CONTIGUOUS"}, s \in BOOLEAN}
  \ {[cf |-> cf, onesegment |-> FALSE] :
       cf \in (SUBSET {"GA_C_CONTIGUOUS", "GA_F_CONTIGUOUS"}) \ {{}}}

\* Byte strides that go with a layout of a 2-d operand (the entry points never read them).
LayoutStrides(view, layout) ==
  LET e == gpuarray_get_elsize(view.typecode)
  IN IF layout.cf = {} THEN [i \in 1..2 |-> 2 * PackedStrides(view.dimensions, e, "GA_C_ORDER")[i]]
     ELSE IF "GA_C_CONTIGUOUS" \in layout.cf THEN PackedStrides(view.dimensions, e, "GA_C_ORDER")
     ELSE PackedStrides(view.dimensions, e, "GA_F_ORDER")

\* A 2-d operand's flags.
DrawMatrixLayout(f, a) ==
  {[f EXCEPT !.v[a].flags = (@ \cap {"GA_ALIGNED"}) \cup d[1].cf,
             !.v[a].onesegment = d[1].onesegment,
             !.v[a].strides = LayoutStrides(f.v[a], d[1]),
             !.budget = d[2]]
   : d \in Draw(f, [cf |-> {"GA_C_CONTIGUOUS"}, onesegment |-> TRUE], MatrixLayouts)}

\* The layout of an operand of gemv, gemm, ger or dot, by its rank.
DrawLayout(f, a) ==
  IF f.v[a].nd = 2 THEN DrawMatrixLayout(f, a)
  ELSE IF f.v[a].nd = 1 THEN DrawVectorStride(f, a)
  ELSE {f}

\* The layouts of the three operands, read once the shapes are accepted.
ReadLayouts(f) == Run(f, Each3(f, Operands(f.op), DrawLayout))

(* ------------------------- shared source blocks ----------------------- *)

Aligned(view) == "GA_ALIGNED" \in view.flags

\* if (A->typecode != GA_HALF && ... ) return error_set(ctx->err, GA_INVALID_ERROR, ...);
CheckTypecode(f) ==
  Run(f, {IF Supported(f.v[(Operands(f.op))[1]].typecode) THEN f
          ELSE error_set(f, "GA_INVALID_ERROR")})

\* if (A->nd != 2 || ...) return error_fmt(ctx->err, GA_VALUE_ERROR, ...);
CheckRanks(f) ==
  Run(f, {IF \A a \in DOMAIN f.v : f.v[a].nd = RequiredRank(f.op)[a] THEN f
          ELSE error_set(f, "GA_VALUE_ERROR")})

SameTypecodes(v, op) ==
  \A a \in DOMAIN v : v[a].typecode = v[(Operands(op))[1]].typecode

\* if (B->typecode != A->typecode || ...) return error_set(ctx->err, GA_VALUE_ERROR, ...);
CheckDtypes(f) ==
  Run(f, {IF SameTypecodes(f.v, f.op) THEN f ELSE error_set(f, "GA_VALUE_ERROR")})

\* if (!(X->flags & GA_ALIGNED) || ...) return error_set(ctx->err, GA_UNALIGNED_ERROR, ...);
CheckAligned(f) ==
  Run(f, {IF \A a \in DOMAIN f.v : Aligned(f.v[a]) THEN f
          ELSE error_set(f, "GA_UNALIGNED_ERROR")})

\* Every vector that is not packed is copied.
CopyNegativeVector_NonUnit(f, a) ==
  Run(f, IF f.v[a].strides[1] # gpuarray_get_elsize(f.v[a].typecode)
           THEN IF f.nocopy THEN {error_set(f, "GA_COPY_ERROR")}
                ELSE GpuArray_copy(f, a, "GA_ANY_ORDER")
           ELSE {f})

\* A negative vector copied whatever nocopy says.
CopyNegativeVector_IgnoringNocopy(f, a) ==
  Run(f, IF f.v[a].strides[1] < 0 THEN GpuArray_copy(f, a, "GA_ANY_ORDER") ELSE {f})

\* if (X->strides[0] < 0) { if (nocopy) return error_set(..GA_COPY_ERROR..);
\*   else { err = GpuArray_copy(&copyX, X, GA_ANY_ORDER); ... Xp = &copyX; } }
CopyNegativeVector(f, a) ==
  Run(f, IF f.v[a].strides[1] < 0
           THEN IF f.nocopy THEN {error_set(f, "GA_COPY_ERROR")}
                ELSE GpuArray_copy(f, a, "GA_ANY_ORDER")
           ELSE {f})

\* cleanup: if (Ap == &copyA) GpuArray_clear(&copyA); ... return err;
RECURSIVE ClearAll(_, _)
ClearAll(f, names) ==
  IF names = <<>> THEN f
  ELSE ClearAll(IF Head(names) \in f.tmp
                  THEN Log(f, [fn |-> "GpuArray_clear", tmp |-> Head(names)])
                  ELSE f,
                Tail(names))

\* A cleanup that releases the temporaries only when no error was met.
Cleanup_OnSuccessOnly(f, names) ==
  IF f.st = "run" THEN [ClearAll(f, names) EXCEPT !.st = "return"]
  ELSE IF f.st = "cleanup" THEN [f EXCEPT !.st = "return"]
  ELSE f

Cleanup(f, names) ==
  IF f.st \in {"run", "cleanup"} THEN [ClearAll(f, names) EXCEPT !.st = "return"] ELSE f

(* ---------------------------- GpuArray_rdot --------------------------- *)

\* if (X->typecode != Y->typecode || X->typecode != Z->typecode)
\*   error_set(ctx->err, GA_VALUE_ERROR, "Inconsistent dtypes");      (no return)
rdot_CheckDtypes(f) ==
  Run(f, {IF SameTypecodes(f.v, f.op) THEN f ELSE [f EXCEPT !.ctx_err = "GA_VALUE_ERROR"]})

\* The extents of X and Y.
rdot_ReadShapes(f) ==
  Run(f, Bind(DrawDim(f, "X", 1, MaxDim), LAMBDA g : DrawDim(g, "Y", 1, g.v.X.dimensions[1])))

\* n = X->dimensions[0];
rdot_ReadN(f) == Run(f, {[f EXCEPT !.n = f.v.X.dimensions[1]]})

\* if (X->dimensions[0] != Y->dimensions[0]) return error_fmt(.. GA_VALUE_ERROR ..);
\* elsize = gpuarray_get_elsize(X->typecode);
rdot_CheckShapes(f) ==
  Run(f, {IF f.v.X.dimensions[1] # f.v.Y.dimensions[1]
            THEN error_set(f, "GA_VALUE_ERROR")
            ELSE [f EXCEPT !.elsize = gpuarray_get_elsize(f.v.X.typecode)]})

\* switch (Xp->typecode) { case GA_FLOAT: err = gpublas_sdot(n, Xp->data,
\*   Xp->offset / elsize, Xp->strides[0] / elsize, ...); break; ... }
rdot_Kernel(f) ==
  Run(f, Kernel(f, [fn |-> "dot", typecode |-> Ptr(f, "X").typecode, n |-> f.n,
                    offX |-> Ptr(f, "X").offset \div f.elsize,
                    incX |-> SizeT(Ptr(f, "X").strides[1]) \div f.elsize,
                    offY |-> Ptr(f, "Y").offset \div f.elsize,
                    incY |-> SizeT(Ptr(f, "Y").strides[1]) \div f.elsize,
                    offZ |-> Ptr(f, "Z").offset \div f.elsize]))

(* ------------------- blocks shared by the matrix calls ---------------- *)

\* if (!GpuArray_ISONESEGMENT(A)) { if (nocopy) return error_set(.. GA_COPY_ERROR ..);
\*   else { err = GpuArray_copy(&copyA, A, GA_F_ORDER); ... Ap = &copyA; } }
CopyNonSegment(f, a) ==
  Run(f, IF ~GpuArray_ISONESEGMENT(f.v[a])
           THEN IF f.nocopy THEN {error_set(f, "GA_COPY_ERROR")}
                ELSE GpuArray_copy(f, a, "GA_F_ORDER")
           ELSE {f})

\* if (!GpuArray_ISONESEGMENT(C)) { err = error_set(.. GA_VALUE_ERROR ..); goto cleanup; }
RequireOneSegment(f, a) ==
  Run(f, {IF ~GpuArray_ISONESEGMENT(f.v[a]) THEN error_goto(f, "GA_VALUE_ERROR") ELSE f})

\* The order the flags of a 2-d view select: GA_F_CONTIGUOUS is tested first.
FlagOrder(view) ==
  IF "GA_F_CONTIGUOUS" \in view.flags THEN "cb_fortran"
  ELSE IF "GA_C_CONTIGUOUS" \in view.flags THEN "cb_c"
  ELSE "none"

\* lda = Ap->dimensions[0] (column-major) or Ap->dimensions[1] (row-major).
FlagLd(view) ==
  IF "GA_F_CONTIGUOUS" \in view.flags THEN view.dimensions[1] ELSE view.dimensions[2]

\* A flip that lost its else branch.
Flip_Stuck(trans) == "cb_trans"

\* if (transA == cb_no_trans) transA = cb_trans; else transA = cb_no_trans;
Flip(trans) == IF trans = "cb_no_trans" THEN "cb_trans" ELSE "cb_no_trans"

\* if (Cp->flags & GA_F_CONTIGUOUS) { o = cb_fortran; ldc = Cp->dimensions[0]; }
\* else if (Cp->flags & GA_C_CONTIGUOUS) { o = cb_c; ldc = Cp->dimensions[1]; }
\* else { err = error_set(.. GA_VALUE_ERROR ..); goto cleanup; }
AnchorOrder(f, a, ld) ==
  Run(f, {IF FlagOrder(Ptr(f, a)) = "none" THEN error_goto(f, "GA_VALUE_ERROR")
          ELSE [f EXCEPT !.o = FlagOrder(Ptr(f, a)), ![ld] = FlagLd(Ptr(f, a))]})

\* A negative output vector treated as an input is: copied.
RejectNegativeVector_Copying(f, a) ==
  Run(f, IF f.v[a].strides[1] < 0 THEN GpuArray_copy(f, a, "GA_ANY_ORDER") ELSE {f})

\* if (Y->strides[0] < 0) { err = error_set(.. GA_VALUE_ERROR ..); goto cleanup; }
RejectNegativeVector(f, a) ==
  Run(f, {IF f.v[a].strides[1] < 0 THEN error_goto(f, "GA_VALUE_ERROR") ELSE f})

(* --------------------------- GpuArray_rgemv --------------------------- *)

\* The rows and columns of op(A).
rgemv_M(f) == IF f.transA = "cb_no_trans" THEN f.v.A.dimensions[1] ELSE f.v.A.dimensions[2]
rgemv_N(f) == IF f.transA = "cb_no_trans" THEN f.v.A.dimensions[2] ELSE f.v.A.dimensions[1]

\* The extents of A, Y and X.
rgemv_ReadShapes(f) ==
  LET a == Bind(DrawDim(f, "A", 1, MaxDim), LAMBDA g : DrawDim(g, "A", 2, MaxDim))
      y == Bind(a, LAMBDA g : DrawDim(g, "Y", 1, rgemv_M(g)))
  IN Run(f, Bind(y, LAMBDA g : DrawDim(g, "X", 1, rgemv_N(g))))

\* if (transA == cb_no_trans) { m = A->dimensions[0]; n = A->dimensions[1]; } else {..}
\* if (Y->dimensions[0] != m || X->dimensions[0] != n) return error_set(.. GA_VALUE_ERROR ..);
\* m = A->dimensions[0]; n = A->dimensions[1]; elsize = gpuarray_get_elsize(A->typecode);
rgemv_CheckShapes(f) ==
  Run(f, {IF f.v.Y.dimensions[1] # rgemv_M(f) \/ f.v.X.dimensions[1] # rgemv_N(f)
            THEN error_set([f EXCEPT !.m = rgemv_M(f), !.n = rgemv_N(f)], "GA_VALUE_ERROR")
            ELSE [f EXCEPT !.m = f.v.A.dimensions[1], !.n = f.v.A.dimensions[2],
                           !.elsize = gpuarray_get_elsize(f.v.A.typecode)]})

\* switch (Ap->typecode) { case GA_FLOAT: err = gpublas_sgemv(o, transA, m, n, alpha,
\*   Ap->data, Ap->offset / elsize, lda, Xp->data, Xp->offset / elsize,
\*   Xp->strides[0] / elsize, beta, Yp->data, Yp->offset / elsize, Yp->strides[0] / elsize); }
rgemv_Kernel(f) ==
  Run(f, Kernel(f, [fn |-> "gemv", typecode |-> Ptr(f, "A").typecode, o |-> f.o,
                    transA |-> f.transA, m |-> f.m, n |-> f.n,
                    offA |-> Ptr(f, "A").offset \div f.elsize, lda |-> f.lda,
                    offX |-> Ptr(f, "X").offset \div f.elsize,
                    incX |-> SizeT(Ptr(f, "X").strides[1]) \div f.elsize,
                    offY |-> Ptr(f, "Y").offset \div f.elsize,
                    incY |-> SizeT(Ptr(f, "Y").strides[1]) \div f.elsize]))

(* --------------------------- GpuArray_rgemm --------------------------- *)

\* The extents of A, B and C: plainly those of a product that fits.
rgemm_ReadShapes(f) ==
  LET inner == IF f.transB = "cb_no_trans" THEN 1 ELSE 2
      outer == IF f.transB = "cb_no_trans" THEN 2 ELSE 1
      M(g) == IF g.transA = "cb_no_trans" THEN g.v.A.dimensions[1] ELSE g.v.A.dimensions[2]
      K(g) == IF g.transA = "cb_no_trans" THEN g.v.A.dimensions[2] ELSE g.v.A.dimensions[1]
      a == Bind(DrawDim(f, "A", 1, MaxDim), LAMBDA g : DrawDim(g, "A", 2, MaxDim))
      b == Bind(a, LAMBDA g : Bind(DrawDim(g, "B", outer, MaxDim),
                                   LAMBDA h : DrawDim(h, "B", inner, K(h))))
  IN Run(f, Bind(b, LAMBDA g : Bind(DrawDim(g, "C", 1, M(g)),
                                    LAMBDA h : DrawDim(h, "C", 2, h.v.B.dimensions[outer]))))

\* if (transA == cb_no_trans) { m = A->dimensions[0]; k = A->dimensions[1]; } else {..}
rgemm_ReadA(f) ==
  Run(f, {IF f.transA = "cb_no_trans"
            THEN [f EXCEPT !.m = f.v.A.dimensions[1], !.k = f.v.A.dimensions[2]]
            ELSE [f EXCEPT !.m = f.v.A.dimensions[2], !.k = f.v.A.dimensions[1]]})

\* The check of B made as if transB were always cb_no_trans.
rgemm_CheckB_IgnoringTransB(f) ==
  LET g == [f EXCEPT !.n = f.v.B.dimensions[2]]
  IN Run(f, {IF f.v.B.dimensions[1] # f.k THEN error_set(g, "GA_VALUE_ERROR") ELSE g})

\* if (transB == cb_no_trans) { n = B->dimensions[1];
\*   if (B->dimensions[0] != k) return error_set(.. GA_VALUE_ERROR ..); }
\* else { n = B->dimensions[0];
\*   if (B->dimensions[1] != k) return error_set(.. GA_VALUE_ERROR ..); }
rgemm_CheckB(f) ==
  LET inner == IF f.transB = "cb_no_trans" THEN 1 ELSE 2
      outer == IF f.transB = "cb_no_trans" THEN 2 ELSE 1
      g == [f EXCEPT !.n = f.v.B.dimensions[outer]]
  IN Run(f, {IF f.v.B.dimensions[inner] # f.k THEN error_set(g, "GA_VALUE_ERROR") ELSE g})

\* if (C->dimensions[0] != m || C->dimensions[1] != n) return error_set(.. GA_VALUE_ERROR ..);
\* elsize = gpuarray_get_elsize(A->typecode);
rgemm_CheckC(f) ==
  Run(f, {IF f.v.C.dimensions[1] # f.m \/ f.v.C.dimensions[2] # f.n
            THEN error_set(f, "GA_VALUE_ERROR")
            ELSE [f EXCEPT !.elsize = gpuarray_get_elsize(f.v.A.typecode)]})

\* if (Ap->flags & GA_F_CONTIGUOUS) { lda = Ap->dimensions[0];
\*   if (o == cb_c) transA = flipped; }
\* else if (Ap->flags & GA_C_CONTIGUOUS) { lda = Ap->dimensions[1];
\*   if (o == cb_fortran) transA = flipped; }
\* else { err = error_set(.. GA_VALUE_ERROR ..); goto cleanup; }
rgemm_Resolve(f, a, ld, trans) ==
  Run(f, {IF FlagOrder(Ptr(f, a)) = "none" THEN error_goto(f, "GA_VALUE_ERROR")
          ELSE [f EXCEPT ![ld] = FlagLd(Ptr(f, a)),
                         ![trans] = IF FlagOrder(Ptr(f, a)) # f.o THEN Flip(@) ELSE @]})

\* switch (Ap->typecode) { case GA_FLOAT: err = gpublas_sgemm(o, transA, transB, m, n, k,
\*   alpha, Ap->data, Ap->offset / elsize, lda, Bp->data, Bp->offset / elsize, ldb,
\*   beta, Cp->data, Cp->offset / elsize, ldc); }
rgemm_Kernel(f) ==
  Run(f, Kernel(f, [fn |-> "gemm", typecode |-> Ptr(f, "A").typecode, o |-> f.o,
                    transA |-> f.transA, transB |-> f.transB,
                    m |-> f.m, n |-> f.n, k |-> f.k,
                    offA |-> Ptr(f, "A").offset \div f.elsize, lda |-> f.lda,
                    offB |-> Ptr(f, "B").offset \div f.elsize, ldb |-> f.ldb,
                    offC |-> Ptr(f, "C").offset \div f.elsize, ldc |-> f.ldc]))

(* ---------------------------- GpuArray_rger --------------------------- *)

\* The extents of X, Y and A.
rger_ReadShapes(f) ==
  LET x == DrawDim(f, "X", 1, MaxDim)
      y == Bind(x, LAMBDA g : DrawDim(g, "Y", 1, MaxDim))
  IN Run(f, Bind(y, LAMBDA g : Bind(DrawDim(g, "A", 1, g.v.X.dimensions[1]),
                                    LAMBDA h : DrawDim(h, "A", 2, h.v.Y.dimensions[1]))))

\* m = X->dimensions[0]; n = Y->dimensions[0];
\* if (A->dimensions[0] != m || A->dimensions[1] != n) return error_set(.. GA_VALUE_ERROR ..);
\* elsize = gpuarray_get_elsize(X->typecode);
rger_CheckShapes(f) ==
  LET h == [f EXCEPT !.m = f.v.X.dimensions[1], !.n = f.v.Y.dimensions[1]]
  IN Run(f, {IF h.v.A.dimensions[1] # h.m \/ h.v.A.dimensions[2] # h.n
               THEN error_set(h, "GA_VALUE_ERROR")
               ELSE [h EXCEPT !.elsize = gpuarray_get_elsize(h.v.X.typecode)]})

\* switch (Xp->typecode) { case GA_FLOAT: err = gpublas_sger(o, m, n, alpha, Xp->data,
\*   Xp->offset / elsize, Xp->strides[0] / elsize, Yp->data, Yp->offset / elsize,
\*   Yp->strides[0] / elsize, Ap->data, Ap->offset / elsize, lda); }
rger_Kernel(f) ==
  Run(f, Kernel(f, [fn |-> "ger", typecode |-> Ptr(f, "X").typecode, o |-> f.o,
                    m |-> f.m, n |-> f.n,
                    offX |-> Ptr(f, "X").offset \div f.elsize,
                    incX |-> SizeT(Ptr(f, "X").strides[1]) \div f.elsize,
                    offY |-> Ptr(f, "Y").offset \div f.elsize,
                    incY |-> SizeT(Ptr(f, "Y").strides[1]) \div f.elsize,
                    offA |-> Ptr(f, "A").offset \div f.elsize, lda |-> f.lda]))

(* ----------------------- GpuArray_rgemmBatch_3d ------------------------ *)

Max(a, b) == IF a > b THEN a ELSE b
Abs(a) == IF a < 0 THEN 0 - a ELSE a

\* Strides, in elements, of the trailing two axes of an r x c slice: packed
\* row-major, packed column-major, each of them padded, a negative and a zero
\* row stride, strides that fit neither order, and rows that overlap (both
\* strides one element, as a view built over existing data can have).
TrailingUnits(r, c) ==
  {<<c, 1>>, <<1, r>>, <<c + 1, 1>>, <<1, r + 1>>, <<0 - c, 1>>, <<0, 1>>, <<2 * c, 2>>,
   <<1, 1>>}

\* Byte strides of a 3-d view whose slices have the trailing strides u and lie
\* one after the other.
BatchStrides(view, u) ==
  LET e == gpuarray_get_elsize(view.typecode)
      r == view.dimensions[2]
      c == view.dimensions[3]
  IN <<e * Max(1, Max(Abs(u[1]) * r, Abs(u[2]) * c)), e * u[1], e * u[2]>>

\* Row-major contiguity of a view, every stride checked (spec 4.2).
StrictCContiguous(view, strides) ==
  strides = PackedStrides(view.dimensions, gpuarray_get_elsize(view.typecode), "GA_C_ORDER")

\* Row-major contiguity with the stride of an axis of extent 1 left free (spec 4.2,
\* degenerate rule).
LooseCContiguous(view, strides) ==
  \A i \in 1..view.nd :
    \/ view.dimensions[i] = 1
    \/ strides[i] = PackedStrides(view.dimensions, gpuarray_get_elsize(view.typecode),
                                  "GA_C_ORDER")[i]

\* The values GA_C_CONTIGUOUS can have on a view with these strides.
CFlagValues(view, strides) ==
  IF StrictCContiguous(view, strides) THEN {TRUE}
  ELSE IF LooseCContiguous(view, strides) THEN {TRUE, FALSE}
  ELSE {FALSE}

BatchLayouts(view) ==
  {[strides |-> BatchStrides(view, u), c |-> c] :
     u \in TrailingUnits(view.dimensions[2], view.dimensions[3]), c \in BOOLEAN}

\* A 3-d operand's strides and row-major flag are read.
DrawBatchLayout(f, a) ==
  LET view == f.v[a]
      layouts == {l \in BatchLayouts(view) : l.c \in CFlagValues(view, l.strides)}
      plain == [strides |-> view.strides, c |-> TRUE]
  IN {[f EXCEPT !.v[a].strides = d[1].strides,
                !.v[a].flags = (@ \cap {"GA_ALIGNED"}) \cup
                               (IF d[1].c THEN {"GA_C_CONTIGUOUS"} ELSE {}),
                !.v[a].onesegment = d[1].c,
                !.budget = d[2]]
      : d \in Draw(f, plain, layouts)}

is_last_2d_contiguous(a) ==
  LET size == gpuarray_get_elsize(a.typecode)
  IN IF GpuArray_IS_C_CONTIGUOUS(a) THEN 1
     ELSE IF a.strides[a.nd - 1] <= 0 \/ a.strides[a.nd] <= 0 THEN 0
     ELSE IF a.strides[a.nd - 1] = size THEN 2
     ELSE IF a.strides[a.nd] = size THEN 1
     ELSE 0

\* The extents of A, B and C: plainly those of a batch of products that fit.
rgemmBatch_ReadShapes(f) ==
  LET inner == IF f.transB = "cb_no_trans" THEN 2 ELSE 3
      outer == IF f.transB = "cb_no_trans" THEN 3 ELSE 2
      M(g) == IF g.transA = "cb_no_trans" THEN g.v.A.dimensions[2] ELSE g.v.A.dimensions[3]
      K(g) == IF g.transA = "cb_no_trans" THEN g.v.A.dimensions[3] ELSE g.v.A.dimensions[2]
      a1 == DrawDim(f, "A", 1, MaxDim)
      b1 == Bind(a1, LAMBDA g : DrawDim(g, "B", 1, g.v.A.dimensions[1]))
      c1 == Bind(b1, LAMBDA g : DrawDim(g, "C", 1, g.v.A.dimensions[1]))
      a == Bind(c1, LAMBDA g : Bind(DrawDim(g, "A", 2, MaxDim),
                                    LAMBDA h : DrawDim(h, "A", 3, MaxDim)))
      b == Bind(a, LAMBDA g : Bind(DrawDim(g, "B", outer, MaxDim),
                                   LAMBDA h : DrawDim(h, "B", inner, K(h))))
  IN Run(f, Bind(b, LAMBDA g : Bind(DrawDim(g, "C", 2, M(g)),
                                    LAMBDA h : DrawDim(h, "C", 3, h.v.B.dimensions[outer]))))

\* The layouts of the three operands, read once the shapes are accepted.
rgemmBatch_ReadLayouts(f) == Run(f, Each3(f, Operands(f.op), DrawBatchLayout))

\* batchCount = A->dimensions[0];
\* if (B->dimensions[0] != batchCount || C->dimensions[0] != batchCount)
\*   return error_set(.. GA_VALUE_ERROR ..);
rgemmBatch_CheckBatch(f) ==
  LET h == [f EXCEPT !.batchCount = f.v.A.dimensions[1]]
  IN Run(f, {IF h.v.B.dimensions[1] # h.batchCount \/ h.v.C.dimensions[1] # h.batchCount
               THEN error_set(h, "GA_VALUE_ERROR")
               ELSE h})

\* if (transA == cb_no_trans) { m = A->dimensions[1]; k = A->dimensions[2]; } else {..}
rgemmBatch_ReadA(f) ==
  Run(f, {IF f.transA = "cb_no_trans"
            THEN [f EXCEPT !.m = f.v.A.dimensions[2], !.k = f.v.A.dimensions[3]]
            ELSE [f EXCEPT !.m = f.v.A.dimensions[3], !.k = f.v.A.dimensions[2]]})

\* if (transB == cb_no_trans) { n = B->dimensions[2];
\*   if (B->dimensions[1] != k) return error_set(.. GA_VALUE_ERROR ..); } else {..}
rgemmBatch_CheckB(f) ==
  LET inner == IF f.transB = "cb_no_trans" THEN 2 ELSE 3
      outer == IF f.transB = "cb_no_trans" THEN 3 ELSE 2
      g == [f EXCEPT !.n = f.v.B.dimensions[outer]]
  IN Run(f, {IF f.v.B.dimensions[inner] # f.k THEN error_set(g, "GA_VALUE_ERROR") ELSE g})

\* if (C->dimensions[1] != m || C->dimensions[2] != n) return error_set(.. GA_VALUE_ERROR ..);
\* elsize = gpuarray_get_elsize(A->typecode);
rgemmBatch_CheckC(f) ==
  Run(f, {IF f.v.C.dimensions[2] # f.m \/ f.v.C.dimensions[3] # f.n
            THEN error_set(f, "GA_VALUE_ERROR")
            ELSE [f EXCEPT !.elsize = gpuarray_get_elsize(f.v.A.typecode)]})

\* cA = is_last_2d_contiguous(A);
\* if (!cA) { if (nocopy) return error_set(.. GA_COPY_ERROR ..);
\*   else { err = GpuArray_copy(&copyA, A, GA_C_ORDER); cA = 1;
\*          if (err != GA_NO_ERROR) goto cleanup; Ap = &copyA; } }
rgemmBatch_CopyInput(f, a, cls) ==
  LET h == [f EXCEPT ![cls] = is_last_2d_contiguous(f.v[a])]
  IN Run(f, IF h[cls] = 0
              THEN IF h.nocopy THEN {error_set(h, "GA_COPY_ERROR")}
                   ELSE GpuArray_copy([h EXCEPT ![cls] = 1], a, "GA_C_ORDER")
              ELSE {h})

\* cC = is_last_2d_contiguous(C);
\* if (!cC) { err = error_set(.. GA_VALUE_ERROR ..); goto cleanup; }
rgemmBatch_CheckOutput(f) ==
  LET h == [f EXCEPT !.cC = is_last_2d_contiguous(f.v.C)]
  IN Run(f, {IF h.cC = 0 THEN error_goto(h, "GA_VALUE_ERROR") ELSE h})

\* The order a classification stands for.
ClassOrder(c) == IF c = 2 THEN "cb_fortran" ELSE IF c = 1 THEN "cb_c" ELSE "none"

\* The leading dimension taken from the stride even along an axis of extent 1.
BatchLd_NoSubstitution(view, c, elsize) ==
  IF c = 2 THEN SizeT(view.strides[3]) \div elsize ELSE SizeT(view.strides[2]) \div elsize

\* lda = Ap->dimensions[2] > 1 ? Ap->strides[2] / elsize : Ap->dimensions[1];   (cA == 2)
\* lda = Ap->dimensions[1] > 1 ? Ap->strides[1] / elsize : Ap->dimensions[2];   (cA == 1)
BatchLd(view, c, elsize) ==
  IF c = 2
    THEN IF view.dimensions[3] > 1 THEN SizeT(view.strides[3]) \div elsize
         ELSE view.dimensions[2]
    ELSE IF view.dimensions[2] > 1 THEN SizeT(view.strides[2]) \div elsize
         ELSE view.dimensions[3]

\* if (cC == 2) { o = cb_fortran; ldc = ..; } else if (cC == 1) { o = cb_c; ldc = ..; }
\* else { err = error_set(.. GA_MISC_ERROR ..); goto cleanup; }
rgemmBatch_Anchor(f) ==
  Run(f, {IF ClassOrder(f.cC) = "none" THEN error_goto(f, "GA_MISC_ERROR")
          ELSE [f EXCEPT !.o = ClassOrder(f.cC),
                         !.ldc = BatchLd(Ptr(f, "C"), f.cC, f.elsize)]})

\* if (cA == 2) { lda = ..; if (o == cb_c) transA = flipped; }
\* else if (cA == 1) { lda = ..; if (o == cb_fortran) transA = flipped; }
\* else { err = error_set(.. GA_MISC_ERROR ..); goto cleanup; }
rgemmBatch_Resolve(f, a, cls, ld, trans) ==
  Run(f, {IF ClassOrder(f[cls]) = "none" THEN error_goto(f, "GA_MISC_ERROR")
          ELSE [f EXCEPT ![ld] = BatchLd(Ptr(f, a), f[cls], f.elsize),
                         ![trans] = IF ClassOrder(f[cls]) # f.o THEN Flip(@) ELSE @]})

\* switch (C->typecode) { case GA_FLOAT: err = gpublas_sgemm3D(o, transA, transB, m, n, k,
\*   alpha, Ap->data, Ap->offset/elsize, lda, Ap->strides[0]/elsize, Bp->data, ...,
\*   beta, Cp->data, Cp->offset/elsize, ldc, Cp->strides[0]/elsize, batchCount, 0); }
rgemmBatch_Kernel3D(f) ==
  Run(f, Kernel(f, [fn |-> "gemm3D", typecode |-> f.v.C.typecode, o |-> f.o,
                    transA |-> f.transA, transB |-> f.transB,
                    m |-> f.m, n |-> f.n, k |-> f.k,
                    offA |-> Ptr(f, "A").offset \div f.elsize, lda |-> f.lda,
                    strideA |-> SizeT(Ptr(f, "A").strides[1]) \div f.elsize,
                    offB |-> Ptr(f, "B").offset \div f.elsize, ldb |-> f.ldb,
                    strideB |-> SizeT(Ptr(f, "B").strides[1]) \div f.elsize,
                    offC |-> Ptr(f, "C").offset \div f.elsize, ldc |-> f.ldc,
                    strideC |-> SizeT(Ptr(f, "C").strides[1]) \div f.elsize,
                    batchCount |-> f.batchCount]))

\* The six host sequences of the fallback, in the order they are allocated and freed.
HostSeqs == <<"A_datas", "B_datas", "C_datas", "A_offsets", "B_offsets", "C_offsets">>
HostSeqSet == {HostSeqs[i] : i \in 1..Len(HostSeqs)}

\* A_datas = (gpudata**)malloc(batchCount * sizeof(gpudata*)); ... six allocations,
\* each of which returns memory or NULL.
rgemmBatch_Malloc(f) ==
  {LET g == [f EXCEPT !.alloc = d[1], !.budget = d[2]]
   IN [g EXCEPT !.calls = @ \o [i \in 1..Len(HostSeqs) |->
                                  [fn |-> "malloc", seq |-> HostSeqs[i],
                                   null |-> HostSeqs[i] \notin d[1]]]]
   : d \in Draw(f, HostSeqSet, SUBSET HostSeqSet)}

\* if (A_datas == NULL || B_datas == NULL || C_datas == NULL ||
\*     A_offsets == NULL || B_offsets == NULL || C_offsets)
AllocationFailed(alloc) ==
  \/ "A_datas" \notin alloc \/ "B_datas" \notin alloc \/ "C_datas" \notin alloc
  \/ "A_offsets" \notin alloc \/ "B_offsets" \notin alloc
  \/ "C_offsets" \in alloc

\* A_offsets[i] = (Ap->offset + i * Ap->strides[0]) / elsize;   (size_t arithmetic)
SliceOffset(view, i, elsize) ==
  SizeT(view.offset + SizeT(i * SizeT(view.strides[1]))) \div elsize

\* for (i = 0; i < batchCount; i++) { A_datas[i] = Ap->data; ...
\*   C_offsets[i] = (Cp->offset + i * Cp->strides[0]) / elsize; }
\* then switch (C->typecode) { case GA_FLOAT: err = gpublas_sgemmBatch(o, transA, transB,
\*   m, n, k, alpha, A_datas, A_offsets, lda, B_datas, B_offsets, ldb, beta,
\*   C_datas, C_offsets, ldc, batchCount, 0); }
\* A store through a sequence that is NULL is undefined: the call stops there
\* (the stores before it done), or the store lands somewhere and the call goes on.
rgemmBatch_FillAndCall(f) ==
  LET null == HostSeqSet \ f.alloc
      offs(a) == [i \in 1..f.batchCount |-> SliceOffset(Ptr(f, a), i - 1, f.elsize)]
      call == [fn |-> "gemmBatch", typecode |-> f.v.C.typecode, o |-> f.o,
               transA |-> f.transA, transB |-> f.transB,
               m |-> f.m, n |-> f.n, k |-> f.k,
               A_offsets |-> offs("A"), lda |-> f.lda,
               B_offsets |-> offs("B"), ldb |-> f.ldb,
               C_offsets |-> offs("C"), ldc |-> f.ldc,
               null |-> null, batchCount |-> f.batchCount]
      first == CHOOSE i \in 1..Len(HostSeqs) :
                 /\ HostSeqs[i] \in null
                 /\ \A j \in 1..(i - 1) : HostSeqs[j] \notin null
  IN IF f.batchCount = 0 \/ null = {}
       THEN Kernel([f EXCEPT !.written = IF f.batchCount = 0 THEN {} ELSE HostSeqSet], call)
       ELSE {[f EXCEPT !.st = "crash",
                       !.written = {HostSeqs[j] : j \in 1..(first - 1)}]}
            \cup Kernel([f EXCEPT !.written = HostSeqSet], call)

\* old_cleanup: free(A_datas); free(B_datas); free(C_datas);
\*              free(A_offsets); free(B_offsets); free(C_offsets);
rgemmBatch_Free(f) ==
  IF f.st = "crash" THEN f
  ELSE [f EXCEPT !.calls = @ \o [i \in 1..Len(HostSeqs) |->
                                   [fn |-> "free", seq |-> HostSeqs[i],
                                    null |-> HostSeqs[i] \notin f.alloc]]]

\* A fallback entered on any failure of the strided-batched kernel.
rgemmBatch_Fallback_OnAnyError(f) ==
  Run(f, IF f.err = "GA_NO_ERROR" THEN {f}
         ELSE {rgemmBatch_Free(h) :
                 h \in Bind(rgemmBatch_Malloc(f),
                            LAMBDA g : IF AllocationFailed(g.alloc)
                                         THEN {[g EXCEPT !.err = "GA_SYS_ERROR",
                                                         !.ctx_err = "GA_SYS_ERROR"]}
                                         ELSE rgemmBatch_FillAndCall(g))})

\* if (err == GA_DEVSUP_ERROR) { six allocations; if (one failed) { err =
\*   error_sys(ctx->err, "malloc"); goto old_cleanup; } fill; call; old_cleanup: free }
rgemmBatch_Fallback(f) ==
  Run(f, IF f.err # "GA_DEVSUP_ERROR" THEN {f}
         ELSE {rgemmBatch_Free(h) :
                 h \in Bind(rgemmBatch_Malloc(f),
                            LAMBDA g : IF AllocationFailed(g.alloc)
                                         THEN {[g EXCEPT !.err = "GA_SYS_ERROR",
                                                         !.ctx_err = "GA_SYS_ERROR"]}
                                         ELSE rgemmBatch_FillAndCall(g))})

(* ------------------------------ the calls ------------------------------ *)

Transposes == {"cb_no_trans", "cb_trans"}

\* The arguments passed by value: nocopy and, where taken, the transpose flags.
Entered(op, withA, withB) ==
  LET f == NewFrame(op, FALSE, "cb_no_trans", "cb_no_trans")
      nc == {[f EXCEPT !.nocopy = d[1], !.budget = d[2]] : d \in Draw(f, FALSE, BOOLEAN)}
      ta == IF withA
              THEN Bind(nc, LAMBDA g : {[g EXCEPT !.transA0 = d[1], !.transA = d[1],
                                                  !.budget = d[2]]
                                        : d \in Draw(g, "cb_no_trans", Transposes)})
              ELSE nc
  IN IF withB
       THEN Bind(ta, LAMBDA g : {[g EXCEPT !.transB0 = d[1], !.transB = d[1],
                                           !.budget = d[2]]
                                 : d \in Draw(g, "cb_no_trans", Transposes)})
       ELSE ta

\* The call stops with frame f: it returned, or it never returns.
Stop(f) ==
  /\ pc' = IF f.st = "crash" THEN "crashed" ELSE "returned"
  /\ args' = [op |-> f.op, nocopy |-> f.nocopy, transA |-> f.transA0,
              transB |-> f.transB0, v |-> f.v]
  /\ loc' = [err |-> f.err, ctx_err |-> f.ctx_err, tmp |-> f.tmp, copyv |-> f.copyv,
             transA |-> f.transA, transB |-> f.transB, elsize |-> f.elsize,
             m |-> f.m, n |-> f.n, k |-> f.k, batchCount |-> f.batchCount,
             o |-> f.o, lda |-> f.lda, ldb |-> f.ldb, ldc |-> f.ldc,
             cA |-> f.cA, cB |-> f.cB, cC |-> f.cC,
             alloc |-> f.alloc, written |-> f.written]
  /\ calls' = f.calls

Init ==
  /\ pc = "idle"
  /\ args = [op |-> "none"]
  /\ loc = [err |-> "unset"]
  /\ calls = <<>>

GpuArray_rdot ==
  /\ pc = "idle"
  /\ \E f0 \in Entered("rdot", FALSE, FALSE) :
     \E f1 \in ReadTypes(f0) :
     \E f2 \in CheckTypecode(f1) :
     \E f3 \in CheckRanks(f2) :
     \E f4 \in rdot_CheckDtypes(f3) :
     \E f5 \in rdot_ReadShapes(f4) :
     \E f6 \in rdot_ReadN(f5) :
     \E f7 \in CheckAligned(f6) :
     \E f8 \in rdot_CheckShapes(f7) :
     \E f9 \in ReadLayouts(f8) :
     \E f10 \in CopyNegativeVector(f9, "X") :
     \E f11 \in CopyNegativeVector(f10, "Y") :
     \E f12 \in gpublas_setup(f11) :
     \E f13 \in rdot_Kernel(f12) :
       Stop(Cleanup(f13, <<"X", "Y">>))

GpuArray_rgemv ==
  /\ pc = "idle"
  /\ \E f0 \in Entered("rgemv", TRUE, FALSE) :
     \E f1 \in ReadTypes(f0) :
     \E f2 \in CheckTypecode(f1) :
     \E f3 \in CheckRanks(f2) :
     \E f4 \in CheckDtypes(f3) :
     \E f5 \in CheckAligned(f4) :
     \E f6 \in rgemv_ReadShapes(f5) :
     \E f7 \in rgemv_CheckShapes(f6) :
     \E f8 \in ReadLayouts(f7) :
     \E f9 \in CopyNonSegment(f8, "A") :
     \E f10 \in CopyNegativeVector(f9, "X") :
     \E f11 \in RejectNegativeVector(f10, "Y") :
     \E f12 \in AnchorOrder(f11, "A", "lda") :
     \E f13 \in gpublas_setup(f12) :
     \E f14 \in rgemv_Kernel(f13) :
       Stop(Cleanup(f14, <<"A", "X">>))

GpuArray_rgemm ==
  /\ pc = "idle"
  /\ \E f0 \in Entered("rgemm", TRUE, TRUE) :
     \E f1 \in ReadTypes(f0) :
     \E f2 \in CheckTypecode(f1) :
     \E f3 \in CheckRanks(f2) :
     \E f4 \in CheckDtypes(f3) :
     \E f5 \in CheckAligned(f4) :
     \E f6 \in rgemm_ReadShapes(f5) :
     \E f7 \in rgemm_ReadA(f6) :
     \E f8 \in rgemm_CheckB(f7) :
     \E f9 \in rgemm_CheckC(f8) :
     \E f10 \in ReadLayouts(f9) :
     \E f11 \in CopyNonSegment(f10, "A") :
     \E f12 \in CopyNonSegment(f11, "B") :
     \E f13 \in RequireOneSegment(f12, "C") :
     \E f14 \in AnchorOrder(f13, "C", "ldc") :
     \E f15 \in rgemm_Resolve(f14, "A", "lda", "transA") :
     \E f16 \in rgemm_Resolve(f15, "B", "ldb", "transB") :
     \E f17 \in gpublas_setup(f16) :
     \E f18 \in rgemm_Kernel(f17) :
       Stop(Cleanup(f18, <<"A", "B">>))

GpuArray_rger ==
  /\ pc = "idle"
  /\ \E f0 \in Entered("rger", FALSE, FALSE) :
     \E f1 \in ReadTypes(f0) :
     \E f2 \in CheckTypecode(f1) :
     \E f3 \in CheckRanks(f2) :
     \E f4 \in CheckDtypes(f3) :
     \E f5 \in CheckAligned(f4) :
     \E f6 \in rger_ReadShapes(f5) :
     \E f7 \in rger_CheckShapes(f6) :
     \E f8 \in ReadLayouts(f7) :
     \E f9 \in CopyNegativeVector(f8, "X") :
     \E f10 \in CopyNegativeVector(f9, "Y") :
     \E f11 \in RequireOneSegment(f10, "A") :
     \E f12 \in AnchorOrder(f11, "A", "lda") :
     \E f13 \in gpublas_setup(f12) :
     \E f14 \in rger_Kernel(f13) :
       Stop(Cleanup(f14, <<"X", "Y">>))

GpuArray_rgemmBatch_3d ==
  /\ pc = "idle"
  /\ \E f0 \in Entered("rgemmBatch_3d", TRUE, TRUE) :
     \E f1 \in ReadTypes(f0) :
     \E f2 \in CheckTypecode(f1) :
     \E f3 \in CheckRanks(f2) :
     \E f4 \in CheckDtypes(f3) :
     \E f5 \in CheckAligned(f4) :
     \E f6 \in rgemmBatch_ReadShapes(f5) :
     \E f7 \in rgemmBatch_CheckBatch(f6) :
     \E f8 \in rgemmBatch_ReadA(f7) :
     \E f9 \in rgemmBatch_CheckB(f8) :
     \E f10 \in rgemmBatch_CheckC(f9) :
     \E f11 \in rgemmBatch_ReadLayouts(f10) :
     \E f12 \in rgemmBatch_CopyInput(f11, "A", "cA") :
     \E f13 \in rgemmBatch_CopyInput(f12, "B", "cB") :
     \E f14 \in rgemmBatch_CheckOutput(f13) :
     \E f15 \in rgemmBatch_Anchor(f14) :
     \E f16 \in rgemmBatch_Resolve(f15, "A", "cA", "lda", "transA") :
     \E f17 \in rgemmBatch_Resolve(f16, "B", "cB", "ldb", "transB") :
     \E f18 \in gpublas_setup(f17) :
     \E f19 \in rgemmBatch_Kernel3D(f18) :
     \E f20 \in rgemmBatch_Fallback(f19) :
       Stop(Cleanup(f20, <<"A", "B">>))

Next ==
  \/ GpuArray_rdot
  \/ GpuArray_rgemv
  \/ GpuArray_rgemm
  \/ GpuArray_rger
  \/ GpuArray_rgemmBatch_3d

Spec == Init /\ [][Next]_vars

(* ------------- slice offsets of the two batched paths ----------------- *)

\* A 3-d operand of b slices of 2 x 2 elements, rows packed, with the given
\* base offset and batch-axis stride (both in elements).
SliceView(typecode, b, offset, step) ==
  LET e == gpuarray_get_elsize(typecode)
      plain == PlainView(typecode, <<b, 2, 2>>)
      strides == <<step * e, 2 * e, e>>
      packed == StrictCContiguous(plain, strides)
  IN [plain EXCEPT !.strides = strides, !.offset = offset * e,
                   !.flags = {"GA_ALIGNED"} \cup (IF packed THEN {"GA_C_CONTIGUOUS"} ELSE {}),
                   !.onesegment = packed]

\* The arguments of a batched call in which operand a has the given base
\* offset and batch-axis stride and the other operands are packed.
SliceArgs ==
  {[op |-> "rgemmBatch_3d", nocopy |-> FALSE,
    transA |-> "cb_no_trans", transB |-> "cb_no_trans",
    v |-> [x \in {"A", "B", "C"} |->
             IF x = a THEN SliceView(t, b, o, u) ELSE SliceView(t, b, 0, 4)]]
   : t \in {"GA_HALF", "GA_FLOAT", "GA_DOUBLE"}, b \in 1..MaxBatch,
     o \in 0..MaxOffset, u \in (0 - MaxStep)..MaxStep, a \in {"A", "B", "C"}}

\* The frames of the call once its operands are resolved and gpublas_setup
\* returned: lines 486-623 on arguments given in full.
SliceFrames(a) ==
  LET f0 == [NewFrame(a.op, a.nocopy, a.transA, a.transB) EXCEPT !.v = a.v, !.budget = 0]
      checked == Bind(Bind(Bind(Bind(CheckTypecode(f0), CheckRanks), CheckDtypes),
                           CheckAligned), rgemmBatch_CheckBatch)
      shaped == Bind(Bind(Bind(checked, rgemmBatch_ReadA), rgemmBatch_CheckB),
                     rgemmBatch_CheckC)
      copied == Bind(Bind(shaped, LAMBDA f : rgemmBatch_CopyInput(f, "A", "cA")),
                     LAMBDA f : rgemmBatch_CopyInput(f, "B", "cB"))
      anchored == Bind(Bind(copied, rgemmBatch_CheckOutput), rgemmBatch_Anchor)
      resolved == Bind(Bind(anchored,
                            LAMBDA f : rgemmBatch_Resolve(f, "A", "cA", "lda", "transA")),
                       LAMBDA f : rgemmBatch_Resolve(f, "B", "cB", "ldb", "transB"))
  IN {f \in Bind(resolved, gpublas_setup) : f.st = "run"}

SliceInit ==
  /\ pc = "idle"
  /\ args \in SliceArgs
  /\ loc = [err |-> "unset"]
  /\ calls = <<>>

\* The strided-batched kernel is called (lines 625-650) and declines.
SliceStrided ==
  /\ pc = "idle"
  /\ \E f \in SliceFrames(args) :
     \E g \in rgemmBatch_Kernel3D([f EXCEPT !.budget = 1]) :
       /\ g.err = "GA_DEVSUP_ERROR"
       /\ pc' = "declined"
       /\ loc' = [err |-> g.err, elsize |-> g.elsize, batchCount |-> g.batchCount]
       /\ calls' = g.calls
  /\ UNCHANGED args

\* The fill loop and the pointer-array kernel (lines 670-702) run with the
\* six sequences allocated.
SliceFallback ==
  /\ pc = "declined"
  /\ \E f \in SliceFrames(args) :
     \E g \in rgemmBatch_FillAndCall([f EXCEPT !.alloc = HostSeqSet, !.calls = calls]) :
       /\ pc' = "filled"
       /\ loc' = [err |-> g.err, elsize |-> g.elsize, batchCount |-> g.batchCount]
       /\ calls' = g.calls
  /\ UNCHANGED args

SliceNext == SliceStrided \/ SliceFallback

SliceSpec == SliceInit /\ [][SliceNext]_vars

(* ----------------------- vocabulary of the properties ------------------ *)

Returned == pc = "returned"

KernelFns == {"dot", "gemv", "gemm", "ger", "gemm3D", "gemmBatch"}

\* Positions in the log of the calls to the named collaborators.
CallsTo(fns) == {i \in DOMAIN calls : calls[i].fn \in fns}

NothingCalled == CallsTo({"GpuArray_copy", "gpublas_setup"} \cup KernelFns) = {}

FirstOperand == args.v[(Operands(args.op))[1]]

RanksRequired == \A a \in DOMAIN args.v : args.v[a].nd = RequiredRank(args.op)[a]

OneElementType == \A a \in DOMAIN args.v : args.v[a].typecode = FirstOperand.typecode

(* ------------------------------- C1 ------------------------------------ *)

\* C1: in each of the five entry points, a call whose first operand has a
\* supported element type and whose operands all have the required rank, but
\* not all one element type, returns GA_VALUE_ERROR without calling
\* GpuArray_copy, gpublas_setup or a kernel.
\* GpuArray_rdot breaks it: it records the error and goes on.
C1_MismatchedTypesRejected ==
  (pc # "idle" /\ Supported(FirstOperand.typecode) /\ RanksRequired /\ ~OneElementType)
    => (Returned /\ loc.err = "GA_VALUE_ERROR" /\ NothingCalled)

(* ------------------------------- C2 ------------------------------------ *)

\* The strided-batched kernel was called and declined the combination.
Gemm3DDeclined ==
  \E i \in CallsTo({"gemm3D"}) : calls[i].err = "GA_DEVSUP_ERROR"

\* The host allocations that returned NULL.
FailedAllocations == {calls[i].seq : i \in {j \in CallsTo({"malloc"}) : calls[j].null}}

\* C2: in GpuArray_rgemmBatch_3d, when gemm3D returns GA_DEVSUP_ERROR and the
\* six host allocations succeed, gemmBatch is invoked exactly once with
\* batchCount offsets for each of A, B and C, and the call returns its status.
\* The code takes the allocation-failure exit instead.
C2_FallbackCallsPointerArrayKernel ==
  (pc # "idle" /\ Gemm3DDeclined /\ FailedAllocations = {})
    => /\ Returned
       /\ Cardinality(CallsTo({"gemmBatch"})) = 1
       /\ \A i \in CallsTo({"gemmBatch"}) :
            /\ Len(calls[i].A_offsets) = loc.batchCount
            /\ Len(calls[i].B_offsets) = loc.batchCount
            /\ Len(calls[i].C_offsets) = loc.batchCount
            /\ loc.err = calls[i].err

(* ------------------------------- C3 ------------------------------------ *)

\* The host sequences passed to free while allocated.
FreedSequences == {calls[i].seq : i \in {j \in CallsTo({"free"}) : ~calls[j].null}}

\* C3: in the fallback, when one of the six host allocations fails, the call
\* returns the system error, nothing is written through a sequence, gemmBatch
\* is not invoked, and every allocated sequence is freed.
\* A failure of C_offsets alone is not detected.
C3_AllocationFailureIsSystemError ==
  (pc # "idle" /\ Gemm3DDeclined /\ FailedAllocations # {})
    => /\ Returned
       /\ loc.err = "GA_SYS_ERROR"
       /\ loc.written = {}
       /\ CallsTo({"gemmBatch"}) = {}
       /\ FreedSequences = loc.alloc

(* ------------------------------- C4 ------------------------------------ *)

\* Positions of the copies of operand a that succeeded (ok) or failed (~ok).
CopiesOf(a, ok) ==
  {i \in CallsTo({"GpuArray_copy"}) : calls[i].src = a /\ (calls[i].err = "GA_NO_ERROR") = ok}

\* Positions of the calls of GpuArray_clear on the temporary made for operand a.
ClearsOf(a) == {i \in CallsTo({"GpuArray_clear"}) : calls[i].tmp = a}

\* C4: when a call returns, each temporary whose GpuArray_copy succeeded has
\* been passed to GpuArray_clear exactly once, after the copy, and no other
\* temporary has been passed to GpuArray_clear.
C4_TemporariesClearedOnce ==
  Returned =>
    /\ \A i \in CallsTo({"GpuArray_clear"}) : calls[i].tmp \in DOMAIN args.v
    /\ \A a \in DOMAIN args.v :
         /\ Cardinality(CopiesOf(a, TRUE)) <= 1
         /\ Cardinality(ClearsOf(a)) = Cardinality(CopiesOf(a, TRUE))
         /\ \A i \in ClearsOf(a) : \E j \in CopiesOf(a, TRUE) : j < i

\* A call that made one temporary, failed to make the next, and returned.
C4_ClearedAfterFailure ==
  /\ Returned
  /\ \E a, b \in DOMAIN args.v :
       /\ CopiesOf(a, TRUE) # {} /\ CopiesOf(b, FALSE) # {}
       /\ ClearsOf(a) # {} /\ ClearsOf(b) = {}
  /\ loc.err = "GA_MEMORY_ERROR"

(* --------------------------- validated calls --------------------------- *)

Rows(view) == view.dimensions[view.nd - 1]
Cols(view) == view.dimensions[view.nd]
EffRows(view, trans) == IF trans = "cb_no_trans" THEN Rows(view) ELSE Cols(view)
EffCols(view, trans) == IF trans = "cb_no_trans" THEN Cols(view) ELSE Rows(view)

\* The element type, rank, dtype and alignment checks pass.
TypesAccepted ==
  /\ pc # "idle"
  /\ Supported(FirstOperand.typecode)
  /\ RanksRequired
  /\ OneElementType
  /\ \A a \in DOMAIN args.v : "GA_ALIGNED" \in args.v[a].flags

\* The product A (under transA) times B (under transB) fits C.
ProductFits ==
  /\ EffCols(args.v.A, args.transA) = EffRows(args.v.B, args.transB)
  /\ Rows(args.v.C) = EffRows(args.v.A, args.transA)
  /\ Cols(args.v.C) = EffCols(args.v.B, args.transB)

\* The shape equations of the operation hold.
ShapesFit ==
  CASE args.op = "rdot" -> args.v.X.dimensions[1] = args.v.Y.dimensions[1]
    [] args.op = "rgemv" -> /\ args.v.Y.dimensions[1] = EffRows(args.v.A, args.transA)
                            /\ args.v.X.dimensions[1] = EffCols(args.v.A, args.transA)
    [] args.op = "rgemm" -> ProductFits
    [] args.op = "rger" -> /\ Rows(args.v.A) = args.v.X.dimensions[1]
                           /\ Cols(args.v.A) = args.v.Y.dimensions[1]
    [] args.op = "rgemmBatch_3d" ->
         /\ args.v.B.dimensions[1] = args.v.A.dimensions[1]
         /\ args.v.C.dimensions[1] = args.v.A.dimensions[1]
         /\ ProductFits

Validated == TypesAccepted /\ ShapesFit

\* The input operands and the output operand of each operation.
InputsOf(op) ==
  CASE op = "rdot" -> <<"X", "Y">>
    [] op = "rgemv" -> <<"A", "X">>
    [] op = "rgemm" -> <<"A", "B">>
    [] op = "rger" -> <<"X", "Y">>
    [] op = "rgemmBatch_3d" -> <<"A", "B">>

OutputOf(op) ==
  CASE op = "rdot" -> "Z"
    [] op = "rgemv" -> "Y"
    [] op = "rgemm" -> "C"
    [] op = "rger" -> "A"
    [] op = "rgemmBatch_3d" -> "C"

\* An input operand cannot be handed to the kernel as it is.
NeedsCopy(a) ==
  LET view == args.v[a]
  IN CASE view.nd = 1 -> view.strides[1] < 0
       [] view.nd = 2 -> ~view.onesegment
       [] view.nd = 3 -> is_last_2d_contiguous(view) = 0

SomeInputNeedsCopy == \E i \in 1..2 : NeedsCopy(InputsOf(args.op)[i])

(* ------------------------------- C5 ------------------------------------ *)

\* C5: a validated call with nocopy true in which an input operand needs a
\* copy returns GA_COPY_ERROR, and GpuArray_copy, gpublas_setup and the
\* kernels are not called.
C5_NocopyRefusesCopy ==
  (Validated /\ args.nocopy /\ SomeInputNeedsCopy)
    => (Returned /\ loc.err = "GA_COPY_ERROR" /\ NothingCalled)

\* Such a call in which the second input alone needs the copy.
C5_SecondInputRefused ==
  /\ Validated /\ args.nocopy /\ Returned
  /\ ~NeedsCopy(InputsOf(args.op)[1])
  /\ NeedsCopy(InputsOf(args.op)[2])
  /\ loc.err = "GA_COPY_ERROR"

(* ------------------------------- C6 ------------------------------------ *)

\* The output operand is one the operation does not accept: a negative
\* vector (gemv), an array with neither contiguity flag (gemm, ger), an
\* unclassifiable trailing slice (batched gemm).
OutputUnusable ==
  LET view == args.v[OutputOf(args.op)]
  IN CASE view.nd = 0 -> FALSE
       [] view.nd = 1 -> view.strides[1] < 0
       [] view.nd = 2 -> view.flags \cap {"GA_C_CONTIGUOUS", "GA_F_CONTIGUOUS"} = {}
       [] view.nd = 3 -> is_last_2d_contiguous(view) = 0

\* C6: the output operand is never passed to GpuArray_copy, and a validated
\* call whose inputs need no copy and whose output is unusable returns
\* GA_VALUE_ERROR, whatever nocopy is, with no kernel invoked.
C6_OutputNeverRepaired ==
  TypesAccepted =>
    /\ \A i \in CallsTo({"GpuArray_copy"}) : calls[i].src # OutputOf(args.op)
    /\ (ShapesFit /\ ~SomeInputNeedsCopy /\ OutputUnusable)
         => (Returned /\ loc.err = "GA_VALUE_ERROR" /\ CallsTo(KernelFns) = {})

\* Such a call, made with nocopy true.
C6_OutputRefusedUnderNocopy ==
  /\ Validated /\ args.nocopy /\ Returned
  /\ ~SomeInputNeedsCopy /\ OutputUnusable
  /\ loc.err = "GA_VALUE_ERROR"

(* ------------------------------- C7 ------------------------------------ *)

\* The view handed to the kernel for operand a: the temporary if one was made.
PassedView(a) == IF a \in loc.tmp THEN loc.copyv[a] ELSE args.v[a]

\* The order an operand is classified as: by its flags (gemv, gemm, ger) or
\* by its trailing two dimensions (batched gemm).
ClassifiedOrder(view) ==
  IF view.nd = 3 THEN ClassOrder(is_last_2d_contiguous(view)) ELSE FlagOrder(view)

Inverted(trans) == IF trans = "cb_trans" THEN "cb_no_trans" ELSE "cb_trans"

\* The flag due for an operand classified as `order` when the call is made in order o.
FlagDue(trans, order, o) == IF order # o THEN Inverted(trans) ELSE trans

\* C7: every gemm, gemm3D and gemmBatch call is made in the order classified
\* for C, and the transpose flag it gets for A, and for B, is the caller's
\* flag, inverted exactly when the operand's classified order (after any
\* copy) differs from that order.
C7_TransposeFollowsOrder ==
  \A i \in CallsTo({"gemm", "gemm3D", "gemmBatch"}) :
    /\ calls[i].o = ClassifiedOrder(args.v.C)
    /\ calls[i].transA = FlagDue(args.transA, ClassifiedOrder(PassedView("A")), calls[i].o)
    /\ calls[i].transB = FlagDue(args.transB, ClassifiedOrder(PassedView("B")), calls[i].o)

\* A kernel call in which A, given transposed, lies in the other order than C
\* while B lies in the order of C.
C7_FlagInvertedForOneOperand ==
  \E i \in CallsTo({"gemm", "gemm3D", "gemmBatch"}) :
    /\ args.transA = "cb_trans"
    /\ ClassifiedOrder(PassedView("A")) # ClassifiedOrder(args.v.C)
    /\ ClassifiedOrder(PassedView("B")) = ClassifiedOrder(args.v.C)
    /\ calls[i].transA = "cb_no_trans"
    /\ calls[i].transB = args.transB

(* ------------------------------- C8 ------------------------------------ *)

\* C8: GpuArray_rgemm, past the type, rank, dtype and alignment checks, on
\* shapes whose inner dimensions differ or whose C is not m x n, returns
\* GA_VALUE_ERROR and calls neither GpuArray_copy, gpublas_setup nor a kernel.
C8_GemmShapeMismatchRejected ==
  (TypesAccepted /\ args.op = "rgemm" /\ ~ProductFits)
    => (Returned /\ loc.err = "GA_VALUE_ERROR" /\ NothingCalled)

\* Such a call whose inner dimensions differ under a transposed B.
C8_InnerMismatchUnderTransB ==
  /\ TypesAccepted /\ args.op = "rgemm" /\ Returned
  /\ args.transB = "cb_trans"
  /\ EffCols(args.v.A, args.transA) # EffRows(args.v.B, args.transB)
  /\ loc.err = "GA_VALUE_ERROR"

(* ------------------------------- C9 ------------------------------------ *)

MatrixKernelFns == {"gemv", "gemm", "ger", "gemm3D", "gemmBatch"}

\* The matrix operands of an operation, each with the field of the kernel
\* call that carries its leading dimension.
MatrixOperands(op) ==
  CASE op \in {"rgemv", "rger"} -> {<<"A", "lda">>}
    [] op \in {"rgemm", "rgemmBatch_3d"} -> {<<"A", "lda">>, <<"B", "ldb">>, <<"C", "ldc">>}
    [] OTHER -> {}

\* C9 as the specification states it: for n > 1, a 1 x n operand is passed
\* with leading dimension n and an n x 1 operand with leading dimension 1.
\* An operand classified column-major breaks it.
C9_DegenerateLeadingDimension ==
  \A i \in CallsTo(MatrixKernelFns) : \A a \in MatrixOperands(args.op) :
    LET view == PassedView(a[1])
        ld == calls[i][a[2]]
    IN /\ (Rows(view) = 1 /\ Cols(view) > 1) => ld = Cols(view)
       /\ (Cols(view) = 1 /\ Rows(view) > 1) => ld = 1

\* C9, amended: for n > 1, a 1 x n operand classified row-major and an n x 1
\* operand classified column-major are passed with leading dimension n (the
\* extent substituted for the degenerate axis); a 1 x n operand classified
\* column-major and an n x 1 operand classified row-major are passed with
\* leading dimension 1 in gemv, gemm and ger, and with the stride of their
\* axis of extent n, in elements, in batched gemm.
C9_LeadingDimensionByOrder ==
  \A i \in CallsTo(MatrixKernelFns) : \A a \in MatrixOperands(args.op) :
    LET view == PassedView(a[1])
        ld == calls[i][a[2]]
        order == ClassifiedOrder(view)
        e == gpuarray_get_elsize(view.typecode)
    IN /\ (Rows(view) = 1 /\ Cols(view) > 1 /\ order = "cb_c") => ld = Cols(view)
       /\ (Cols(view) = 1 /\ Rows(view) > 1 /\ order = "cb_fortran") => ld = Rows(view)
       /\ (Rows(view) = 1 /\ Cols(view) > 1 /\ order = "cb_fortran")
            => ld = IF view.nd = 3 THEN view.strides[3] \div e ELSE 1
       /\ (Cols(view) = 1 /\ Rows(view) > 1 /\ order = "cb_c")
            => ld = IF view.nd = 3 THEN view.strides[2] \div e ELSE 1

\* A batched kernel call with a 1 x n operand classified row-major whose row
\* stride is not n elements: the extent is what is passed.
C9_ExtentSubstituted ==
  \E i \in CallsTo({"gemm3D"}) : \E a \in MatrixOperands(args.op) :
    LET view == PassedView(a[1])
    IN /\ Rows(view) = 1 /\ Cols(view) > 1
       /\ ClassifiedOrder(view) = "cb_c"
       /\ view.strides[2] \div gpuarray_get_elsize(view.typecode) # Cols(view)
       /\ calls[i][a[2]] = Cols(view)

(* ------------------------------- C10 ----------------------------------- *)

\* The input operands that are vectors, by their position among the inputs.
VectorInputs == {i \in 1..2 : args.v[InputsOf(args.op)[i]].nd = 1}

CopyAttempted(a) == CopiesOf(a, TRUE) \cup CopiesOf(a, FALSE) # {}

\* A stride passed to a kernel, in elements of the size_t it is computed in,
\* stands for a non-negative stride.
NonNegativeStride(inc) == inc * loc.elsize < SizeModulus \div 2

NoNegativeStridePassed ==
  /\ \A i \in CallsTo({"dot", "ger"}) :
       NonNegativeStride(calls[i].incX) /\ NonNegativeStride(calls[i].incY)
  /\ \A i \in CallsTo({"gemv"}) :
       NonNegativeStride(calls[i].incX) /\ NonNegativeStride(calls[i].incY)

\* C10 as the specification states it: in a validated call of dot, gemv or
\* ger with nocopy false, an input vector is copied if and only if its
\* stride is negative, and no kernel gets a negative stride for X or Y.
\* A vector that comes after an operand whose copy failed is not copied.
C10_VectorCopiedIffNegative ==
  (Validated /\ args.op \in {"rdot", "rgemv", "rger"} /\ ~args.nocopy /\ Returned)
    => /\ \A k \in VectorInputs :
            CopyAttempted(InputsOf(args.op)[k])
              <=> args.v[InputsOf(args.op)[k]].strides[1] < 0
       /\ NoNegativeStridePassed

\* C10, amended: in a validated call of dot, gemv or ger with nocopy false,
\* an input vector is copied if and only if its stride is negative and no
\* copy of an earlier operand has failed, and no kernel gets a negative
\* stride for X or Y.
C10_VectorCopiedIffNegativeAndReached ==
  (Validated /\ args.op \in {"rdot", "rgemv", "rger"} /\ ~args.nocopy /\ Returned)
    => /\ \A k \in VectorInputs :
            CopyAttempted(InputsOf(args.op)[k])
              <=> /\ args.v[InputsOf(args.op)[k]].strides[1] < 0
                  /\ \A j \in 1..(k - 1) : CopiesOf(InputsOf(args.op)[j], FALSE) = {}
       /\ NoNegativeStridePassed

\* A kernel call made with a vector of stride 2 passed as it is and a
\* negative vector replaced by its copy.
C10_StridedPassedNegativeCopied ==
  /\ Validated /\ ~args.nocopy /\ Returned
  /\ \E i \in CallsTo({"dot", "ger"}) :
       /\ args.v.X.strides[1] = 2 * loc.elsize /\ ~CopyAttempted("X")
       /\ calls[i].incX = 2
       /\ args.v.Y.strides[1] < 0 /\ CopiesOf("Y", TRUE) # {}
       /\ calls[i].incY = 1

(* ------------------------------- C11 ----------------------------------- *)

\* C11: dot, gemv, gemm and ger invoke at most one kernel per call and
\* return the status it gave, GA_DEVSUP_ERROR included; a second kernel is
\* invoked only by GpuArray_rgemmBatch_3d, only after gemm3D returned
\* GA_DEVSUP_ERROR, and at most once.
C11_OneKernelOneRetry ==
  pc # "idle" =>
    LET kernels == CallsTo(KernelFns)
    IN /\ Cardinality(kernels) <= 2
       /\ args.op # "rgemmBatch_3d" =>
            /\ Cardinality(kernels) <= 1
            /\ \A i \in kernels : Returned /\ loc.err = calls[i].err
       /\ Cardinality(kernels) = 2 =>
            /\ args.op = "rgemmBatch_3d"
            /\ \E i, j \in kernels :
                 /\ i < j
                 /\ calls[i].fn = "gemm3D" /\ calls[i].err = "GA_DEVSUP_ERROR"
                 /\ calls[j].fn = "gemmBatch"
       /\ \A i \in CallsTo({"gemmBatch"}) : CallsTo({"gemm3D"}) # {}

\* A gemm call whose kernel declined the combination: the call returned
\* that status and invoked nothing else.
C11_DeclinedStatusReturned ==
  /\ Returned /\ args.op = "rgemm"
  /\ Cardinality(CallsTo(KernelFns)) = 1
  /\ \E i \in CallsTo({"gemm"}) : calls[i].err = "GA_DEVSUP_ERROR"
  /\ loc.err = "GA_DEVSUP_ERROR"

(* ------------------------------- C12 ----------------------------------- *)

\* The fields of the strided call and of the pointer-array call that carry
\* an operand's base offset, batch stride and per-slice offsets.
SliceFields ==
  {[off |-> "offA", stride |-> "strideA", offsets |-> "A_offsets"],
   [off |-> "offB", stride |-> "strideB", offsets |-> "B_offsets"],
   [off |-> "offC", stride |-> "strideC", offsets |-> "C_offsets"]}

\* C12: for each operand and each batch index i < batchCount, the offset the
\* fallback computes, (offset + i*strides[0]) / elsize, equals the base
\* offset plus i times the batch stride handed to the strided kernel, in
\* size_t arithmetic, for every batch stride that is a multiple of the
\* element size, negative ones included.
\* A negative stride breaks it: its quotient by elsize is taken unsigned.
C12_PathsAddressSameSlice ==
  \A s \in CallsTo({"gemm3D"}) : \A p \in CallsTo({"gemmBatch"}) :
    \A x \in SliceFields : \A i \in 0..(calls[p].batchCount - 1) :
      calls[p][x.offsets][i + 1]
        = SizeT(calls[s][x.off] + SizeT(i * calls[s][x.stride]))

(* ------------------------------- C13 ----------------------------------- *)

\* C13: whenever GpuArray_rgemmBatch_3d invokes a kernel, the leading
\* dimension passed for an operand that is_last_2d_contiguous accepted
\* without a copy is at least 1 and at least the extent of the operand's
\* contiguous trailing axis: its columns when it is classified row-major,
\* its rows when it is classified column-major.
\* A view whose rows overlap is accepted and breaks it.
C13_LeadingDimensionCoversExtent ==
  \A i \in CallsTo({"gemm3D", "gemmBatch"}) : \A a \in MatrixOperands(args.op) :
    a[1] \notin loc.tmp =>
      LET view == args.v[a[1]]
          order == ClassOrder(is_last_2d_contiguous(view))
          ld == calls[i][a[2]]
      IN /\ ld >= 1
         /\ order = "cb_c" => ld >= Cols(view)
         /\ order = "cb_fortran" => ld >= Rows(view)

====
